---- MODULE Spec2Model ----
(***************************************************************************)
(* Model of the AdOps multi-agent workflow (main.py, api_server.py).       *)
(*                                                                         *)
(* One run of the compiled StateGraph is modelled: the graph built by      *)
(* create_adops_workflow is executed in supersteps; the nodes of one       *)
(* superstep run as concurrent tasks against the state read at the start   *)
(* of the superstep, and the values they return are written to the state   *)
(* channels when all of them have returned.  A node that raises ends the   *)
(* run with that exception.                                                *)
(*                                                                         *)
(* Dictionaries (agent_outputs, context, performance_metrics, the dicts    *)
(* returned by the agents) are sets of <<key, value>> pairs.               *)
(* Money amounts are whole dollars, CTR values are in thousandths          *)
(* (ctr = 3 stands for 0.003, the threshold 0.01 is 10).                   *)
(***************************************************************************)
EXTENDS Integers, Sequences, FiniteSets, TLC

\* Largest number of campaigns in the initial state.
MaxCampaigns == 2

\* Largest number of runs started, and the last clock reading, where the
\* thread ids of several runs are compared.
MaxRuns == 3
MaxClock == 3

\* Where a run is started again on its thread: the largest number of
\* restarts and of campaigns in the initial state.
MaxRestarts == 1
MaxRestartCampaigns == 1

(***************************************************************************)
(* Dictionaries                                                            *)
(***************************************************************************)
EmptyDict == {}

Keys(d) == {p[1] : p \in d}

Get(d, k) == (CHOOSE p \in d : p[1] = k)[2]

\* dict.get(k, default)
GetOr(d, k, default) == IF k \in Keys(d) THEN Get(d, k) ELSE default

\* d[k] = v
Put(d, k, v) == {p \in d : p[1] # k} \cup {<<k, v>>}

(***************************************************************************)
(* The graph                                                               *)
(***************************************************************************)
Nodes == {"coordinator", "monitor", "quality_assurance", "campaign_creation", "reporting"}

\* The graph with one more edge, from coordinator straight to reporting.
Edges_C6 ==
    { <<"START", "coordinator">>,
      <<"coordinator", "monitor">>,
      <<"coordinator", "quality_assurance">>,
      <<"coordinator", "campaign_creation">>,
      <<"coordinator", "reporting">>,
      <<"monitor", "reporting">>,
      <<"quality_assurance", "reporting">>,
      <<"campaign_creation", "reporting">> }

Edges ==
    { <<"START", "coordinator">>,
      <<"coordinator", "monitor">>,
      <<"coordinator", "quality_assurance">>,
      <<"coordinator", "campaign_creation">>,
      <<"monitor", "reporting">>,
      <<"quality_assurance", "reporting">>,
      <<"campaign_creation", "reporting">> }

Predecessors(n) == {m \in Nodes : <<m, n>> \in Edges}

\* The nodes triggered by the nodes that ran in the previous superstep.
NextTasks(ran) == {n \in Nodes : \E m \in ran : <<m, n>> \in Edges}

\* The fields of AdOpsState: the state channels of the graph.
StateKeys == {"messages", "campaigns", "alerts", "reports", "current_task",
              "agent_outputs", "context"}

(***************************************************************************)
(* Inputs                                                                  *)
(***************************************************************************)
\* The two labels coordinate_agents names, and two it does not.
TaskLabels == {"monitor_campaigns", "create_campaign", "optimize_bids", "pause_campaign"}

MessageContents == {"Create campaign: summer shoes", "Monitor campaigns and generate report"}

\* 'create campaign' in message.content.lower()
ContainsCreateCampaign(content) == content \in {"Create campaign: summer shoes"}

\* Budgets and metrics of a campaign: on either side of and on the two
\* thresholds, with a budget of zero, and with a metric missing.
CampaignBodies ==
    { [daily_budget |-> 200, performance_metrics |-> {<<"daily_spend", 90>>, <<"ctr", 3>>}],
      [daily_budget |-> 200, performance_metrics |-> {<<"daily_spend", 100>>, <<"ctr", 10>>}],
      [daily_budget |-> 200, performance_metrics |-> {<<"daily_spend", 90>>, <<"ctr", 10>>}],
      [daily_budget |-> 200, performance_metrics |-> {<<"daily_spend", 100>>, <<"ctr", 3>>}],
      [daily_budget |-> 0,   performance_metrics |-> {<<"daily_spend", 100>>, <<"ctr", 10>>}],
      [daily_budget |-> 200, performance_metrics |-> {<<"ctr", 10>>}] }

\* Lists of at most MaxCampaigns campaigns; the campaign ids are the
\* positions in the list, or one id shared by all campaigns.
CampaignLists ==
    UNION { { [i \in 1..k |-> [campaign_id |-> IF shared THEN 1 ELSE i,
                               daily_budget |-> b[i].daily_budget,
                               performance_metrics |-> b[i].performance_metrics]] :
              b \in [1..k -> CampaignBodies], shared \in BOOLEAN } : k \in 0..MaxCampaigns }

\* AdCampaign objects (main, create_sample_campaigns) or the raw dicts of
\* an API request (CampaignMonitorRequest.campaigns: List[Dict]).
CampaignKinds == {"AdCampaign", "dict"}

(***************************************************************************)
(* State of one run                                                        *)
(***************************************************************************)
VARIABLES
    state,         \* the state channels: one value per AdOpsState field
    campaignKind,  \* what the elements of state.campaigns are
    tasks,         \* the nodes of the current superstep
    step,          \* number of supersteps whose writes have been applied
    pc,            \* per node: "idle", "running", "done", "failed", "cancelled"
    given,         \* per node: the state object passed to its body
    after,         \* per node: that same object when the body returned
    ret,           \* per node: the dict its body returned
    merged,        \* the nodes whose returned values were written to the state
    status,        \* "running", "done" (ainvoke returned), "error" (ainvoke raised)
    printed,       \* the error messages printed by the except branches
    s3Failed,      \* the S3 put_object of this run's report raised
    checkpoint,    \* the latest checkpoint saved for the run's thread id
    resumedFrom,   \* the nodes completed in the checkpoint the thread held
                   \* when the current run was started on it
    restarts,      \* how often a run was started again on the thread
    clock,         \* the reading of datetime.now().timestamp()
    sessions       \* the runs started so far: entry point and thread id

threadVars == <<resumedFrom, restarts, clock, sessions>>

vars == <<state, campaignKind, tasks, step, pc, given, after, ret, merged,
          status, printed, s3Failed, checkpoint, resumedFrom, restarts,
          clock, sessions>>

\* AdOpsState(messages=[HumanMessage(content=message)], campaigns=campaigns,
\*            alerts=[], reports=[], current_task=task_type,
\*            agent_outputs={}, context={})
InitialState(task_type, message, campaigns) ==
    [ messages      |-> << [type |-> "human", content |-> message] >>,
      campaigns     |-> campaigns,
      alerts        |-> << >>,
      reports       |-> << >>,
      current_task  |-> task_type,
      agent_outputs |-> EmptyDict,
      context       |-> EmptyDict ]

\* What the checkpointer (SqliteSaver) keeps of a run after a superstep:
\* the step, the nodes completed so far and the state.
Checkpoint(k, completed, st) == [step |-> k, completed |-> completed, state |-> st]

Init ==
    /\ \E task_type \in TaskLabels, message \in MessageContents, campaigns \in CampaignLists :
          state = InitialState(task_type, message, campaigns)
    /\ campaignKind \in CampaignKinds
    /\ tasks = NextTasks({"START"})
    /\ step = 0
    /\ pc = [n \in Nodes |-> "idle"]
    /\ given = [n \in Nodes |-> state]
    /\ after = [n \in Nodes |-> state]
    /\ ret = [n \in Nodes |-> EmptyDict]
    /\ merged = {}
    /\ status = "running"
    /\ printed = {}
    /\ s3Failed = FALSE
    /\ checkpoint = Checkpoint(0, {}, state)
    /\ resumedFrom = {}
    /\ restarts = 0
    /\ clock = 0
    /\ sessions = << >>

(***************************************************************************)
(* coordinate_agents                                                       *)
(***************************************************************************)
\* The decision without its "monitor_campaigns" branch.
Decide_C2(current_task) ==
    IF current_task = "create_campaign"
    THEN [active_agents |-> <<"campaign_creation">>, execution_mode |-> "sequential"]
    ELSE [active_agents |-> <<"monitor", "quality_assurance", "reporting">>,
          execution_mode |-> "parallel"]

\* The decision with the "create_campaign" branch copied from the first one.
Decide_C3(current_task) ==
    IF current_task = "monitor_campaigns"
    THEN [active_agents |-> <<"monitor", "quality_assurance">>, execution_mode |-> "parallel"]
    ELSE IF current_task = "create_campaign"
    THEN [active_agents |-> <<"campaign_creation">>, execution_mode |-> "parallel"]
    ELSE [active_agents |-> <<"monitor", "quality_assurance", "reporting">>,
          execution_mode |-> "parallel"]

\* The if/elif/else on state.current_task.
Decide(current_task) ==
    IF current_task = "monitor_campaigns"
    THEN [active_agents |-> <<"monitor", "quality_assurance">>, execution_mode |-> "parallel"]
    ELSE IF current_task = "create_campaign"
    THEN [active_agents |-> <<"campaign_creation">>, execution_mode |-> "sequential"]
    ELSE [active_agents |-> <<"monitor", "quality_assurance", "reporting">>,
          execution_mode |-> "parallel"]

\* The coordinator selecting no agent when the state has no campaigns.
CoordinatorStateAfter_C14(st) ==
    [st EXCEPT !.agent_outputs =
        Put(@, "coordination",
            IF Len(st.campaigns) = 0
            THEN [active_agents |-> << >>, execution_mode |-> "sequential"]
            ELSE Decide(st.current_task))]

\* state.agent_outputs['coordination'] = {...}: an assignment into the
\* dict of the state object the coordinator was given.
CoordinatorStateAfter(st) ==
    [st EXCEPT !.agent_outputs = Put(@, "coordination", Decide(st.current_task))]

\* return state: the coordinator returns the state object itself, which the
\* graph reads as a value for every field.
StateAsDict(st) == {<<k, st[k]>> : k \in StateKeys}

CoordinatorReturn(st) == StateAsDict(CoordinatorStateAfter(st))

(***************************************************************************)
(* CampaignMonitorAgent.execute                                            *)
(***************************************************************************)
\* campaign.performance_metrics.get('daily_spend', 0)
DailySpend(c) == GetOr(c.performance_metrics, "daily_spend", 0)

\* daily_spend / campaign.daily_budget if campaign.daily_budget > 0 else 0,
\* as the fraction <<numerator, denominator>>.
BudgetUtilization(c) ==
    IF c.daily_budget > 0 THEN <<DailySpend(c), c.daily_budget>> ELSE <<0, 1>>

\* budget_utilization <= 0.5
Underspending_C9(c) == 2 * BudgetUtilization(c)[1] <= BudgetUtilization(c)[2]

\* budget_utilization < 0.5
Underspending(c) == 2 * BudgetUtilization(c)[1] < BudgetUtilization(c)[2]

\* ctr < 0.01, in thousandths
LowCtr(c) == GetOr(c.performance_metrics, "ctr", 0) < 10

\* cpc > 2.0, in thousandths
HighCpc(c) == GetOr(c.performance_metrics, "cpc", 0) > 2000

\* The alerts appended for one campaign, in the order of the two ifs.
CampaignAlerts(c) ==
    (IF Underspending(c)
     THEN << [type |-> "underspending", campaign_id |-> c.campaign_id, severity |-> "medium"] >>
     ELSE << >>)
    \o
    (IF LowCtr(c)
     THEN << [type |-> "low_performance", campaign_id |-> c.campaign_id, severity |-> "high"] >>
     ELSE << >>)

RECURSIVE MonitorAlerts(_)
\* for campaign in state.campaigns: ...
MonitorAlerts(cs) ==
    IF Len(cs) = 0 THEN << >> ELSE CampaignAlerts(Head(cs)) \o MonitorAlerts(Tail(cs))

RECURSIVE MonitorRecommendations(_)
MonitorRecommendations(cs) ==
    IF Len(cs) = 0 THEN << >>
    ELSE (IF HighCpc(Head(cs)) THEN << [campaign_id |-> Head(cs).campaign_id] >> ELSE << >>)
         \o MonitorRecommendations(Tail(cs))

\* The alerts returned under the key 'alert'.
MonitorReturn_C5(st) ==
    { <<"alert", MonitorAlerts(st.campaigns)>>,
      <<"recommendations", MonitorRecommendations(st.campaigns)>>,
      <<"monitored_campaigns", Len(st.campaigns)>> }

\* The monitor also returning an agent_outputs dict holding its own output.
MonitorReturn_C8(st) ==
    { <<"alerts", MonitorAlerts(st.campaigns)>>,
      <<"agent_outputs", {<<"monitor", MonitorAlerts(st.campaigns)>>}>>,
      <<"recommendations", MonitorRecommendations(st.campaigns)>>,
      <<"monitored_campaigns", Len(st.campaigns)>> }

\* return {'alerts': ..., 'recommendations': ..., 'monitored_campaigns': ...}
MonitorReturn(st) ==
    { <<"alerts", MonitorAlerts(st.campaigns)>>,
      <<"recommendations", MonitorRecommendations(st.campaigns)>>,
      <<"monitored_campaigns", Len(st.campaigns)>> }

\* The monitor appending its alerts to state.alerts.
MonitorStateAfter_C7(st) == [st EXCEPT !.alerts = @ \o MonitorAlerts(st.campaigns)]

\* The body has no assignment to a field of state.
MonitorStateAfter(st) == st

\* campaign.performance_metrics is an attribute access: it raises
\* AttributeError when the campaign is a dict.
AttributeAccessRaises(st) == campaignKind = "dict" /\ Len(st.campaigns) > 0

(***************************************************************************)
(* QualityAssuranceAgent.execute                                           *)
(***************************************************************************)
\* return {'qa_results': ..., 'compliance_issues': ..., 'overall_compliance_score': ...}
\* (one qa_result per campaign; the checks on ad copy, age range and total
\* budget read fields the campaigns of this model do not carry).
QAReturn(st) ==
    { <<"qa_results", [i \in 1..Len(st.campaigns) |-> [campaign_id |-> st.campaigns[i].campaign_id]]>>,
      <<"compliance_issues", << >> >>,
      <<"overall_compliance_score", IF Len(st.campaigns) > 0 THEN 100 ELSE 0>> }

QAStateAfter(st) == st

(***************************************************************************)
(* CampaignCreatorAgent.execute                                            *)
(***************************************************************************)
\* What the LLM answers to _parse_campaign_requirements: a JSON object, JSON
\* that is not an object (json.loads returns a list), or no valid JSON.
LLMReplies == {"json_object", "json_list", "invalid"}

\* await self.llm.ainvoke(messages): neither the call, nor the node, nor
\* workflow.ainvoke carries a timeout, so the await ends when the LLM
\* answers and lasts forever when it never does.
AwaitLLM(answers) == IF answers THEN "returned" ELSE "blocked"

\* The first HumanMessage whose content contains 'create campaign'.
HasCreateRequest(st) ==
    \E i \in 1..Len(st.messages) :
        st.messages[i].type = "human" /\ ContainsCreateCampaign(st.messages[i].content)

\* campaign_spec.get(...) raises AttributeError when json.loads returned a list.
CreatorRaises(st, reply) == HasCreateRequest(st) /\ reply = "json_list"

\* _parse_campaign_requirements: the parsed object, or the defaults of the
\* except branch.
CampaignSpec(reply) ==
    IF reply = "json_object"
    THEN {<<"name", "Shoes">>}
    ELSE {<<"name", "Auto-Generated Campaign">>, <<"budget", 1000>>, <<"daily_budget", 50>>}

NewCampaign(spec) ==
    [ name         |-> GetOr(spec, "name", "New Campaign"),
      budget       |-> GetOr(spec, "budget", 1000),
      daily_budget |-> GetOr(spec, "daily_budget", 50),
      status       |-> "draft" ]

\* The creator also returning the campaigns with the new one appended.
CreatorReturn_C15(st, reply) ==
    IF ~HasCreateRequest(st)
    THEN { <<"error", "No campaign creation request found">> }
    ELSE { <<"new_campaign", NewCampaign(CampaignSpec(reply))>>,
           <<"campaigns", Append(st.campaigns, NewCampaign(CampaignSpec(reply)))>>,
           <<"campaign_spec", CampaignSpec(reply)>>,
           <<"success", TRUE>> }

CreatorReturn(st, reply) ==
    IF ~HasCreateRequest(st)
    THEN { <<"error", "No campaign creation request found">> }
    ELSE { <<"new_campaign", NewCampaign(CampaignSpec(reply))>>,
           <<"campaign_spec", CampaignSpec(reply)>>,
           <<"success", TRUE>> }

CreatorStateAfter(st) == st

(***************************************************************************)
(* ReportingAgent.execute                                                  *)
(***************************************************************************)
\* _store_report_s3 without its try/except.
StoreReportS3_C10(s3ok) ==
    IF s3ok
    THEN [raised |-> FALSE, printed |-> {}]
    ELSE [raised |-> TRUE, printed |-> {}]

\* _store_report_s3: put_object inside try/except Exception; the except
\* branch prints and the method returns normally.
StoreReportS3(s3ok) ==
    IF s3ok
    THEN [raised |-> FALSE, printed |-> {}]
    ELSE [raised |-> FALSE, printed |-> {"Error storing report in S3"}]

\* _generate_executive_summary: the LLM's text, or the text of the except branch.
ExecutiveSummary(llmok) ==
    IF llmok THEN "summary" ELSE "Executive summary generation failed"

\* return {'report': report, 'report_url': ...}
ReportingReturn(st, llmok) ==
    { <<"report", [total_campaigns |-> Len(st.campaigns),
                   campaign_details |-> [i \in 1..Len(st.campaigns) |->
                                            [campaign_id |-> st.campaigns[i].campaign_id]],
                   executive_summary |-> ExecutiveSummary(llmok)]>>,
      <<"report_url", "s3://adops-reports/report.json">> }

ReportingStateAfter(st) == st

(***************************************************************************)
(* The graph run: workflow.ainvoke(initial_state, config)                  *)
(***************************************************************************)
\* Of a returned dict, the entries whose key is a field of the state are
\* written; the other entries are dropped.
Updates(r) == {p \in r : p[1] \in StateKeys}

\* The tasks of the current superstep that write field k.
Writers(k) == {n \in tasks : k \in Keys(Updates(ret[n]))}

\* A field without a reducer takes one value per superstep.
ConflictingWrite == \E k \in StateKeys : Cardinality(Writers(k)) > 1

MergedState ==
    [k \in StateKeys |->
        IF Writers(k) # {}
        THEN Get(Updates(ret[CHOOSE n \in Writers(k) : TRUE]), k)
        ELSE state[k]]

\* The superstep ending although a task is still awaiting.
BarrierReached_C12 == tasks # {} /\ \A n \in tasks : pc[n] \in {"done", "blocked"}

\* All tasks of the superstep have returned.
BarrierReached == tasks # {} /\ \A n \in tasks : pc[n] = "done"

\* A task of the current superstep is started on the state read from the
\* channels.
Dispatch(n) ==
    /\ status = "running"
    /\ n \in tasks
    /\ pc[n] = "idle"
    /\ pc' = [pc EXCEPT ![n] = "running"]
    /\ given' = [given EXCEPT ![n] = state]
    /\ after' = [after EXCEPT ![n] = state]
    /\ UNCHANGED <<state, campaignKind, tasks, step, ret, merged, status, printed, s3Failed>>
    /\ UNCHANGED <<checkpoint, threadVars>>

\* The failure of n kept as a record, the run going on.
Raise_C4(n) ==
    /\ pc' = [pc EXCEPT ![n] = "failed"]
    /\ UNCHANGED <<status, ret, after>>

\* The body of n raised: the superstep's other running tasks are cancelled
\* and the exception leaves ainvoke.
Raise(n) ==
    /\ pc' = [m \in Nodes |-> IF m = n THEN "failed"
                              ELSE IF pc[m] \in {"running", "blocked"} THEN "cancelled"
                              ELSE pc[m]]
    /\ status' = "error"
    /\ UNCHANGED <<ret, after>>

\* The body of n awaits an answer that never comes.
Block(n) ==
    /\ pc' = [pc EXCEPT ![n] = "blocked"]
    /\ UNCHANGED <<status, ret, after>>

\* The body of n returned r, leaving the state object it was given as obj.
Return(n, r, obj) ==
    /\ pc' = [pc EXCEPT ![n] = "done"]
    /\ ret' = [ret EXCEPT ![n] = r]
    /\ after' = [after EXCEPT ![n] = obj]
    /\ UNCHANGED status

CoordinateAgents ==
    /\ status = "running"
    /\ pc["coordinator"] = "running"
    /\ Return("coordinator", CoordinatorReturn(given["coordinator"]),
              CoordinatorStateAfter(given["coordinator"]))
    \* the dict assigned into is the dict held by the agent_outputs channel
    /\ state' = [state EXCEPT !.agent_outputs = CoordinatorStateAfter(given["coordinator"]).agent_outputs]
    /\ UNCHANGED <<campaignKind, tasks, step, given, merged, printed, s3Failed>>
    /\ UNCHANGED <<checkpoint, threadVars>>

MonitorExecute ==
    /\ status = "running"
    /\ pc["monitor"] = "running"
    /\ \E dynamoOk \in BOOLEAN, cloudwatchOk \in BOOLEAN :
        IF AttributeAccessRaises(given["monitor"])
        THEN Raise("monitor") /\ UNCHANGED printed
        ELSE /\ Return("monitor", MonitorReturn(given["monitor"]),
                       MonitorStateAfter(given["monitor"]))
             /\ printed' = printed
                  \cup (IF ~dynamoOk /\ Len(MonitorAlerts(given["monitor"].campaigns)) > 0
                        THEN {"Error storing alert"} ELSE {})
                  \cup (IF ~cloudwatchOk /\ Len(given["monitor"].campaigns) > 0
                        THEN {"Error sending cloudwatch metrics"} ELSE {})
    /\ UNCHANGED <<state, campaignKind, tasks, step, given, merged, s3Failed>>
    /\ UNCHANGED <<checkpoint, threadVars>>

QAExecute ==
    /\ status = "running"
    /\ pc["quality_assurance"] = "running"
    /\ IF AttributeAccessRaises(given["quality_assurance"])
       THEN Raise("quality_assurance")
       ELSE Return("quality_assurance", QAReturn(given["quality_assurance"]),
                   QAStateAfter(given["quality_assurance"]))
    /\ UNCHANGED <<state, campaignKind, tasks, step, given, merged, printed, s3Failed>>
    /\ UNCHANGED <<checkpoint, threadVars>>

CreatorExecute ==
    /\ status = "running"
    /\ pc["campaign_creation"] = "running"
    /\ \E reply \in LLMReplies, answers \in BOOLEAN :
        IF HasCreateRequest(given["campaign_creation"]) /\ AwaitLLM(answers) = "blocked"
        THEN Block("campaign_creation") /\ UNCHANGED printed
        ELSE IF CreatorRaises(given["campaign_creation"], reply)
        THEN Raise("campaign_creation") /\ UNCHANGED printed
        ELSE /\ Return("campaign_creation", CreatorReturn(given["campaign_creation"], reply),
                       CreatorStateAfter(given["campaign_creation"]))
             /\ printed' = printed
                  \cup (IF HasCreateRequest(given["campaign_creation"]) /\ reply = "invalid"
                        THEN {"Error parsing campaign requirements"} ELSE {})
    /\ UNCHANGED <<state, campaignKind, tasks, step, given, merged, s3Failed>>
    /\ UNCHANGED <<checkpoint, threadVars>>

ReportingExecute ==
    /\ status = "running"
    /\ pc["reporting"] = "running"
    /\ \E s3ok \in BOOLEAN, llmok \in BOOLEAN, answers \in BOOLEAN :
        IF AttributeAccessRaises(given["reporting"])
        THEN Raise("reporting") /\ UNCHANGED <<printed, s3Failed>>
        ELSE /\ s3Failed' = ~s3ok
             /\ printed' = printed \cup StoreReportS3(s3ok).printed
             /\ IF StoreReportS3(s3ok).raised
                THEN Raise("reporting")
                ELSE IF AwaitLLM(answers) = "blocked"
                THEN Block("reporting")
                ELSE Return("reporting", ReportingReturn(given["reporting"], llmok),
                            ReportingStateAfter(given["reporting"]))
    /\ UNCHANGED <<state, campaignKind, tasks, step, given, merged>>
    /\ UNCHANGED <<checkpoint, threadVars>>

\* The end of a superstep: the returned values are written to the state and
\* the nodes the finished ones point to become the next superstep; with no
\* node left, ainvoke returns the state.
ApplyWrites ==
    /\ status = "running"
    /\ BarrierReached
    /\ IF ConflictingWrite
       THEN /\ status' = "error"
            /\ UNCHANGED <<state, tasks, step, merged, checkpoint>>
       ELSE /\ state' = MergedState
            /\ merged' = merged \cup tasks
            /\ step' = step + 1
            /\ tasks' = NextTasks(tasks)
            /\ status' = IF NextTasks(tasks) = {} THEN "done" ELSE "running"
            \* compile(checkpointer=memory): the state is saved after the superstep
            /\ checkpoint' = Checkpoint(step + 1, merged \cup tasks, MergedState)
    /\ UNCHANGED <<campaignKind, pc, given, after, ret, printed, s3Failed, threadVars>>

Next ==
    \/ \E n \in Nodes : Dispatch(n)
    \/ CoordinateAgents
    \/ MonitorExecute
    \/ QAExecute
    \/ CreatorExecute
    \/ ReportingExecute
    \/ ApplyWrites

Spec == Init /\ [][Next]_vars

(***************************************************************************)
(* Thread ids of the runs started: main and execute_adops_workflow         *)
(***************************************************************************)
\* config = {"configurable": {"thread_id": "adops_session_1"}}
MainThreadId == <<"adops_session_", 1>>

\* config = {"configurable": {"thread_id": f"api_{datetime.now().timestamp()}"}}
ApiThreadId(now) == <<"api_", now>>

\* An execution of main starts a run.
StartMainRun ==
    /\ Len(sessions) < MaxRuns
    /\ sessions' = Append(sessions, [entry |-> "main", thread_id |-> MainThreadId])
    /\ UNCHANGED <<state, campaignKind, tasks, step, pc, given, after, ret, merged,
                   status, printed, s3Failed, checkpoint, resumedFrom, restarts, clock>>

\* An API request starts a run; requests are served concurrently, so a
\* second one may start before the clock reading has changed.
StartApiRun ==
    /\ Len(sessions) < MaxRuns
    /\ sessions' = Append(sessions, [entry |-> "api", thread_id |-> ApiThreadId(clock)])
    /\ UNCHANGED <<state, campaignKind, tasks, step, pc, given, after, ret, merged,
                   status, printed, s3Failed, checkpoint, resumedFrom, restarts, clock>>

\* Time passes.
Tick ==
    /\ clock < MaxClock
    /\ clock' = clock + 1
    /\ UNCHANGED <<state, campaignKind, tasks, step, pc, given, after, ret, merged,
                   status, printed, s3Failed, checkpoint, resumedFrom, restarts, sessions>>

\* The runs started, whatever each of them does.
SessionsInit ==
    /\ Init
    /\ state.current_task = "monitor_campaigns"
    /\ Len(state.campaigns) = 0
    /\ state.messages[1].content = "Monitor campaigns and generate report"
    /\ campaignKind = "AdCampaign"

SessionsNext == StartMainRun \/ StartApiRun \/ Tick

SessionsSpec == SessionsInit /\ [][SessionsNext]_vars

(***************************************************************************)
(* A run started again on a thread id that holds a checkpoint              *)
(***************************************************************************)
\* The run going straight to reporting when the checkpoint covers the level
\* before it.
RestartTasks_C13(completed) ==
    IF {"monitor", "quality_assurance", "campaign_creation"} \subseteq completed
       /\ "reporting" \notin completed
    THEN {"reporting"}
    ELSE NextTasks({"START"})

\* workflow.ainvoke(initial_state, config): the run is given an input, so it
\* starts at the entry of the graph whatever the thread's checkpoint holds.
RestartTasks(completed) == NextTasks({"START"})

\* The fields of the input are written over the state of the checkpoint;
\* initial_state gives every field.
RestartState(saved, input) ==
    [k \in StateKeys |-> IF k \in DOMAIN input THEN input[k] ELSE saved[k]]

\* The process ends during a run; the checkpoints written so far stay in
\* checkpoint.sqlite.
Crash ==
    /\ status = "running"
    /\ status' = "crashed"
    /\ pc' = [n \in Nodes |-> IF pc[n] \in {"running", "blocked"} THEN "cancelled" ELSE pc[n]]
    /\ UNCHANGED <<state, campaignKind, tasks, step, given, after, ret, merged,
                   printed, s3Failed, checkpoint, threadVars>>

\* The same initial state is run again with the same thread id (main's
\* "adops_session_1", or an API thread id read off the same clock value).
StartAgain ==
    /\ status # "running"
    /\ restarts < MaxRestarts
    /\ restarts' = restarts + 1
    /\ resumedFrom' = checkpoint.completed
    /\ state' = RestartState(checkpoint.state, given["coordinator"])
    /\ checkpoint' = Checkpoint(0, {}, RestartState(checkpoint.state, given["coordinator"]))
    /\ tasks' = RestartTasks(checkpoint.completed)
    /\ step' = 0
    /\ pc' = [n \in Nodes |-> "idle"]
    /\ ret' = [n \in Nodes |-> EmptyDict]
    /\ merged' = {}
    /\ status' = "running"
    /\ printed' = {}
    /\ s3Failed' = FALSE
    /\ UNCHANGED <<campaignKind, given, after, clock, sessions>>

RestartInit == Init /\ Len(state.campaigns) <= MaxRestartCampaigns

RestartNext == Next \/ Crash \/ StartAgain

RestartSpec == RestartInit /\ [][RestartNext]_vars

\* The event loop runs a task that can run: a run does not stop while one
\* of its steps is possible.
FairSpec == Spec /\ WF_vars(Next)

(***************************************************************************)
(* Properties                                                              *)
(***************************************************************************)
PredecessorsOfReporting == {"monitor", "quality_assurance", "campaign_creation"}

\* The coordination decision as stored in the state.
Decision == Get(state.agent_outputs, "coordination")

ActiveSet(d) == {d.active_agents[i] : i \in 1..Len(d.active_agents)}

\* The nodes whose failure the run holds as a record: the graph keeps none
\* but the body's exception.
FailedNodes == {n \in Nodes : pc[n] = "failed"}

HasAlert(alerts, type, id) ==
    \E j \in 1..Len(alerts) : alerts[j].type = type /\ alerts[j].campaign_id = id

\* C1: a node outside the coordinator's active subset for the task label is
\* never invoked (with "create_campaign": neither reporting, monitor nor
\* quality_assurance).
C1_OnlyActiveNodesInvoked ==
    \A n \in Nodes \ {"coordinator"} :
        pc[n] # "idle" => n \in ActiveSet(Decide(state.current_task))

\* C2 as stated: for "monitor_campaigns" the decision is the active set
\* {monitor, quality_assurance, reporting} in mode parallel.
C2_MonitorDecisionWithReporting ==
    (state.current_task = "monitor_campaigns" /\ pc["coordinator"] = "done") =>
        /\ ActiveSet(Decision) = {"monitor", "quality_assurance", "reporting"}
        /\ Decision.execution_mode = "parallel"

\* C2 as amended: for "monitor_campaigns" the decision is the active agents
\* monitor, quality_assurance (without reporting) in mode parallel.
C2_MonitorDecision ==
    (state.current_task = "monitor_campaigns" /\ pc["coordinator"] = "done") =>
        /\ Decision.active_agents = <<"monitor", "quality_assurance">>
        /\ Decision.execution_mode = "parallel"

C2_Witness ==
    /\ state.current_task = "monitor_campaigns"
    /\ pc["coordinator"] = "done"
    /\ "coordination" \in Keys(state.agent_outputs)

\* C3: for "create_campaign" the decision is the active set
\* {campaign_creation} in mode sequential.
C3_CreateDecision ==
    (state.current_task = "create_campaign" /\ pc["coordinator"] = "done") =>
        /\ ActiveSet(Decision) = {"campaign_creation"}
        /\ Len(Decision.active_agents) = 1
        /\ Decision.execution_mode = "sequential"

C3_Witness ==
    /\ state.current_task = "create_campaign"
    /\ pc["coordinator"] = "done"
    /\ "coordination" \in Keys(state.agent_outputs)

\* C4 as stated: the failure of monitor, quality_assurance or
\* campaign_creation never aborts the run.
C4_FailureNeverAborts ==
    \A n \in PredecessorsOfReporting : pc[n] = "failed" => status # "error"

\* C4 as amended: when monitor, quality_assurance or campaign_creation
\* raises, the run ends with that error: nothing of that superstep is
\* written to the state, reporting is not dispatched and no result is
\* returned.
C4_FailureAborts ==
    \A n \in PredecessorsOfReporting :
        pc[n] = "failed" =>
            /\ status = "error"
            /\ pc["reporting"] = "idle"
            /\ merged = {"coordinator"}
            /\ state.alerts = << >>

C4_Witness ==
    /\ pc["campaign_creation"] = "failed"
    /\ pc["monitor"] = "done"
    /\ Len(GetOr(ret["monitor"], "alerts", << >>)) > 0

\* C5 as stated: in a "monitor_campaigns" run the state reporting receives
\* holds every alert of monitor in agent_outputs under monitor's name.
C5_AlertsInAgentOutputs ==
    (state.current_task = "monitor_campaigns" /\ pc["reporting"] # "idle") =>
        /\ "monitor" \in Keys(given["reporting"].agent_outputs)
        /\ Get(given["reporting"].agent_outputs, "monitor")
              = MonitorAlerts(given["monitor"].campaigns)

\* C5 as amended: in a "monitor_campaigns" run the state reporting receives
\* holds every alert of monitor in its alerts field (agent_outputs has no
\* entry for monitor).
C5_AlertsInAlertsField ==
    (state.current_task = "monitor_campaigns" /\ pc["reporting"] # "idle") =>
        /\ given["reporting"].alerts = MonitorAlerts(given["monitor"].campaigns)
        /\ "monitor" \notin Keys(given["reporting"].agent_outputs)

C5_Witness ==
    /\ state.current_task = "monitor_campaigns"
    /\ pc["reporting"] = "running"
    /\ HasAlert(given["reporting"].alerts, "underspending", 1)
    /\ HasAlert(given["reporting"].alerts, "low_performance", 1)

\* C6: reporting is dispatched only when monitor, quality_assurance and
\* campaign_creation have all returned and their values were written to the
\* state, and these three only when the coordinator has returned and its
\* value was written.
C6_LevelByLevel ==
    /\ pc["reporting"] # "idle" =>
          \A p \in PredecessorsOfReporting : pc[p] = "done" /\ p \in merged
    /\ \A p \in PredecessorsOfReporting :
          pc[p] # "idle" => pc["coordinator"] = "done" /\ "coordinator" \in merged

C6_Witness ==
    /\ pc["reporting"] = "running"
    /\ \A p \in PredecessorsOfReporting : pc[p] = "done"

\* C7 as stated: no node body changes the state object it is given.
C7_NoBodyMutatesState ==
    \A n \in Nodes : pc[n] = "done" => after[n] = given[n]

\* C7 as amended: monitor, quality_assurance, campaign_creation and
\* reporting leave the state object they are given unchanged; the
\* coordinator assigns agent_outputs['coordination'] in the object it is
\* given, which changes the run state before its returned value is written.
C7_OnlyCoordinatorMutates ==
    /\ \A n \in Nodes \ {"coordinator"} : pc[n] = "done" => after[n] = given[n]
    /\ pc["coordinator"] = "done" =>
          /\ after["coordinator"] =
                [given["coordinator"] EXCEPT !.agent_outputs =
                    {<<"coordination", Decide(given["coordinator"].current_task)>>}]
          /\ after["coordinator"] # given["coordinator"]
    /\ (pc["coordinator"] = "done" /\ "coordinator" \notin merged) =>
          state.agent_outputs = after["coordinator"].agent_outputs

C7_Witness ==
    /\ pc["coordinator"] = "done"
    /\ "coordinator" \notin merged
    /\ state.agent_outputs # given["coordinator"].agent_outputs

\* C8 as stated: the keys of agent_outputs are the names of the nodes that
\* have completed.
C8_KeysAreCompletedNodes ==
    Keys(state.agent_outputs) = {n \in Nodes : pc[n] = "done"}

\* C8 as amended: agent_outputs is empty until the coordinator's body has
\* run and has the single key 'coordination' from then on; no node but the
\* coordinator writes agent_outputs.
C8_OnlyCoordinationKey ==
    /\ Keys(state.agent_outputs) =
          (IF pc["coordinator"] = "done" THEN {"coordination"} ELSE {})
    /\ \A n \in Nodes \ {"coordinator"} : "agent_outputs" \notin Keys(Updates(ret[n]))

C8_Witness ==
    /\ pc["monitor"] = "done"
    /\ pc["quality_assurance"] = "done"
    /\ "monitor" \in merged
    /\ Keys(state.agent_outputs) = {"coordination"}

\* C9: monitor's output has an 'underspending' alert for a campaign exactly
\* when daily_spend / daily_budget is below 50% (0% when the budget is not
\* positive) and a 'low_performance' alert exactly when its CTR is below
\* 0.01, each rule on its own: per campaign id, there are as many alerts of
\* a type as campaigns of that id the type's rule holds for.
C9_MonitorAlertRules ==
    pc["monitor"] = "done" =>
        LET cs     == given["monitor"].campaigns
            alerts == GetOr(ret["monitor"], "alerts", << >>)
            spend(c) == IF \E p \in c.performance_metrics : p[1] = "daily_spend"
                        THEN (CHOOSE p \in c.performance_metrics : p[1] = "daily_spend")[2]
                        ELSE 0
            ctr(c)   == IF \E p \in c.performance_metrics : p[1] = "ctr"
                        THEN (CHOOSE p \in c.performance_metrics : p[1] = "ctr")[2]
                        ELSE 0
            below50(c) == IF c.daily_budget > 0
                          THEN 100 * spend(c) < 50 * c.daily_budget
                          ELSE TRUE
            count(type, id) ==
                Cardinality({j \in 1..Len(alerts) :
                                alerts[j].type = type /\ alerts[j].campaign_id = id})
        IN  /\ \A j \in 1..Len(alerts) :
                  /\ alerts[j].type \in {"underspending", "low_performance"}
                  /\ \E i \in 1..Len(cs) : cs[i].campaign_id = alerts[j].campaign_id
            /\ \A i \in 1..Len(cs) :
                  /\ count("underspending", cs[i].campaign_id) =
                        Cardinality({k \in 1..Len(cs) :
                            cs[k].campaign_id = cs[i].campaign_id /\ below50(cs[k])})
                  /\ count("low_performance", cs[i].campaign_id) =
                        Cardinality({k \in 1..Len(cs) :
                            cs[k].campaign_id = cs[i].campaign_id /\ ctr(cs[k]) < 10})

C9_Witness ==
    /\ pc["monitor"] = "done"
    /\ \E i \in 1..Len(given["monitor"].campaigns) :
          /\ given["monitor"].campaigns[i].daily_budget = 200
          /\ given["monitor"].campaigns[i].performance_metrics
                = {<<"daily_spend", 90>>, <<"ctr", 3>>}
          /\ HasAlert(Get(ret["monitor"], "alerts"), "underspending", i)
          /\ HasAlert(Get(ret["monitor"], "alerts"), "low_performance", i)

\* C10 as stated: when reporting's storage write fails, the run's result has
\* a failure record for reporting.
C10_ReportingFailureRecorded ==
    (s3Failed /\ status = "done") => "reporting" \in FailedNodes

\* C10 as amended: when reporting's storage write fails, the error is
\* printed inside reporting, which returns normally: the run does not abort,
\* there is no failure record for reporting, and the result holds monitor's
\* alerts (nothing quality_assurance returned is a field of the state).
C10_StorageFailureSwallowed ==
    s3Failed =>
        /\ pc["reporting"] \in {"done", "blocked"}
        /\ status # "error"
        /\ FailedNodes = {}
        /\ "Error storing report in S3" \in printed
        /\ state.alerts = MonitorAlerts(state.campaigns)
        /\ Updates(ret["quality_assurance"]) = {}

C10_Witness ==
    /\ s3Failed
    /\ status = "done"
    /\ Len(state.alerts) > 0

\* The state the run was started with: the coordinator is the first node
\* dispatched, on the state as given to ainvoke.
StartState == given["coordinator"]

\* The declared policy: a decision per named label, one default for the rest.
PolicyTable(label) ==
    CASE label = "monitor_campaigns" ->
            [active_agents |-> <<"monitor", "quality_assurance">>, execution_mode |-> "parallel"]
      [] label = "create_campaign" ->
            [active_agents |-> <<"campaign_creation">>, execution_mode |-> "sequential"]
      [] OTHER ->
            [active_agents |-> <<"monitor", "quality_assurance", "reporting">>,
             execution_mode |-> "parallel"]

\* C14: the coordinator yields a decision for every task label, the same
\* default for every label it does not name, never fails, and the decision
\* is a function of the label alone: whatever the campaigns, messages and
\* context of the state, it is the table's entry for the label.
C14_DecisionIsLookup ==
    /\ pc["coordinator"] \in {"idle", "running", "done"}
    /\ pc["coordinator"] = "done" =>
          /\ Keys(after["coordinator"].agent_outputs) = {"coordination"}
          /\ Get(after["coordinator"].agent_outputs, "coordination")
                = PolicyTable(StartState.current_task)
          /\ Decision = PolicyTable(state.current_task)

C14_Witness ==
    /\ pc["coordinator"] = "done"
    /\ state.current_task = "pause_campaign"
    /\ Len(state.campaigns) = 0
    /\ Decision.active_agents = <<"monitor", "quality_assurance", "reporting">>

\* C15: the campaigns and the messages of the state are those the run was
\* started with, in every state of the run and so in its result; the
\* campaign built by campaign_creation is returned under 'new_campaign' only
\* and is not written to the state.
C15_CampaignsAndMessagesKept ==
    /\ state.campaigns = StartState.campaigns
    /\ state.messages = StartState.messages
    /\ \A n \in Nodes \ {"coordinator"} :
          /\ "campaigns" \notin Keys(Updates(ret[n]))
          /\ "messages" \notin Keys(Updates(ret[n]))

C15_Witness ==
    /\ status = "done"
    /\ "new_campaign" \in Keys(ret["campaign_creation"])
    /\ "campaign_creation" \in merged
    /\ Len(state.campaigns) > 0
    /\ state.campaigns = StartState.campaigns

\* C12 as stated: every run eventually terminates, also when a node body
\* never returns.
C12_EveryRunTerminates == <>(status # "running")

\* C12 as amended: no node invocation is bounded by a timeout: a node whose
\* LLM call never returns stays blocked (or is cancelled by a sibling's
\* exception), is never recorded as failed or done, and while it is blocked
\* the level is not merged, no next level starts and the run does not
\* return.
C12_BlockedNodeBlocksRun ==
    [][\A n \in Nodes :
          pc[n] = "blocked" =>
              /\ pc'[n] \in {"blocked", "cancelled"}
              /\ step' = step
              /\ merged' = merged
              /\ status' # "done"]_vars

C12_Witness ==
    /\ pc["campaign_creation"] = "blocked"
    /\ pc["monitor"] = "done"
    /\ pc["quality_assurance"] = "done"
    /\ status = "running"

\* C11: no two runs started use the same thread id.
C11_FreshSessionIds ==
    \A i, j \in 1..Len(sessions) :
        i # j => sessions[i].thread_id # sessions[j].thread_id

====
